---------------------------- MODULE Spec2Model ----------------------------
(***************************************************************************)
(* A model of the embedding map viewer: the QuadTree spatial index, the    *)
(* EmbeddingMap camera, filter, renderer and image load scheduler          *)
(* (map.js, carried in src/README.md from line 374 on) and the App glue    *)
(* (src/js/app.js).                                                        *)
(*                                                                         *)
(* Real-valued quantities are kept in fixed point: world coordinates in    *)
(* units of 1/WS, zoom factors and pixel fractions in units of 1/FS;       *)
(* products and quotients are truncated toward zero.                       *)
(***************************************************************************)
EXTENDS Integers, Sequences, FiniteSets, TLC

VARIABLES
    imageCache,       \* this.imageCache: id -> Image object (a record)
    imageLoadQueue,   \* this.imageLoadQueue: Image objects not yet started
    currentLoads,     \* this.currentLoads
    fetches,          \* history: per id, how many times img.src was assigned
    created,          \* history: per id, how many Image objects were created
    lastCall,         \* history: the last loadImage call, [id, cached]
    quadTree,         \* this.quadTree: node path -> QuadTree node; empty = null
    allPoints,        \* this.allPoints (scaled points, in insertion order)
    bounds,           \* this.bounds (scaled), <<>> = null
    lastQuery,        \* the last quadTree.query call: <<[range, found]>>
    canvas,           \* canvas.clientWidth / clientHeight: [width, height]
    camera,           \* this.camera: [x, y, zoom]
    targetCamera,     \* this.targetCamera: [x, y, zoom]
    isDragging,       \* this.isDragging
    lastMouse,        \* this.lastMouse: [x, y]
    velocity,         \* this.velocity: [x, y]
    hoveredPoint,     \* this.hoveredPoint: <<>> = null, or <<point>>
    filteredIds,      \* this.filteredIds: <<>> = null, or <<set of ids>>
    frame,            \* what the last render() drew and reported
    steps,            \* number of handler runs so far (bounds the model)
    app,              \* the App: [phase, fetches, errors, overlayHidden,
                      \* handlers]
    hoverCalls,       \* history: onHoverChange calls since the last render()
    probe,            \* the last evaluation of a computation taken on its
                      \* own: <<>>, or <<[inputs and result]>>
    search            \* the SearchManager: [allPoints, input, searchTimeout,
                      \* results]

loaderVars ==
    <<imageCache, imageLoadQueue, currentLoads, fetches, created, lastCall>>

treeVars == <<quadTree, allPoints, bounds, lastQuery>>

cameraVars == <<camera, targetCamera>>

interactionVars == <<isDragging, lastMouse, velocity, hoveredPoint>>

viewVars ==
    <<canvas, camera, targetCamera, isDragging, lastMouse, velocity,
      hoveredPoint, filteredIds, frame, steps>>

hostVars == <<app, hoverCalls, probe, search>>

vars ==
    <<imageCache, imageLoadQueue, currentLoads, fetches, created, lastCall,
      quadTree, allPoints, bounds, lastQuery,
      canvas, camera, targetCamera, isDragging, lastMouse, velocity,
      hoveredPoint, filteredIds, frame, steps, app, hoverCalls, probe,
      search>>

-----------------------------------------------------------------------------
(* Bounds of the model *)

\* Number of distinct point ids the model requests images for.
MaxIds == 7

Ids == 1..MaxIds

\* Number of points a dataset of the model holds at most.
MaxPoints == 5

\* World coordinates are kept in units of 1/WS, a power of two so that the
\* halvings of subdivide are exact down to the depths the model reaches.
WS == 2 ^ 4

\* Zoom factors and fractions of a screen pixel are kept in units of 1/FS.
FS == 10 ^ 3

\* Number of handler runs (events, commands, frames) in a run of MapSpec.
MaxSteps == 4
\* Steps of the dataset and viewport widths given to displaySize.
MaxWidthSteps == 10
\* Length of the text typed into the search input, at most.
MaxQueryLen == 2

-----------------------------------------------------------------------------
(* Image load scheduler: EmbeddingMap.loadImage / processImageQueue *)

maxConcurrentLoads == 6

\* Number of requests held back in the queue at most when the requests come
\* in id order (FairLoaderSpec).
MaxQueued == 2

QueueIds == 1..(maxConcurrentLoads + MaxQueued)

\* An Image object.  status "queued": created, src not assigned;
\* "loading": src assigned, neither onload nor onerror has fired;
\* "loaded" / "failed": onload / onerror has fired.
NewImage(id) == [id |-> id, status |-> "queued"]


\* The scheduler's fields as one record: the handlers below are functions
\* from the fields before to the fields after, so that render can call
\* loadImage once per visible point within one frame.
Loader ==
    [imageCache |-> imageCache, imageLoadQueue |-> imageLoadQueue,
     currentLoads |-> currentLoads, fetches |-> fetches, created |-> created,
     lastCall |-> lastCall]

\* The fields after a handler has run.
SetLoader(s) ==
    /\ imageCache' = s.imageCache
    /\ imageLoadQueue' = s.imageLoadQueue
    /\ currentLoads' = s.currentLoads
    /\ fetches' = s.fetches
    /\ created' = s.created
    /\ lastCall' = s.lastCall

\* Loop condition of processImageQueue, with <= for <.
CanStart_OffByOne(s) ==
    s.currentLoads <= maxConcurrentLoads /\ Len(s.imageLoadQueue) > 0

\* Loop condition of processImageQueue.
CanStart(s) ==
    s.currentLoads < maxConcurrentLoads /\ Len(s.imageLoadQueue) > 0

\* The loop body taking the newest request: pop() for shift().
StartLoad_Pop(s) ==
    LET img == s.imageLoadQueue[Len(s.imageLoadQueue)] IN
    [s EXCEPT !.imageCache[img].status = "loading",
              !.imageLoadQueue = SubSeq(@, 1, Len(@) - 1),
              !.currentLoads = @ + 1,
              !.fetches[img] = @ + 1]

\* The loop body without this.currentLoads++.
StartLoad_Uncounted(s) ==
    LET img == Head(s.imageLoadQueue) IN
    [s EXCEPT !.imageCache[img].status = "loading",
              !.imageLoadQueue = Tail(@),
              !.fetches[img] = @ + 1]

\* Loop body: shift the queue, count the load, assign img.src (the fetch).
StartLoad(s) ==
    LET img == Head(s.imageLoadQueue) IN
    [s EXCEPT !.imageCache[img].status = "loading",
              !.imageLoadQueue = Tail(@),
              !.currentLoads = @ + 1,
              !.fetches[img] = @ + 1]

RECURSIVE processImageQueue(_)
processImageQueue(s) ==
    IF CanStart(s) THEN processImageQueue(StartLoad(s)) ELSE s

\* The part of loadImage after the cache lookup: create the Image, cache
\* it, enqueue it, run the queue.
CreateAndEnqueue(s, id) ==
    processImageQueue(
        [s EXCEPT !.imageCache = [i \in DOMAIN s.imageCache \cup {id} |->
                                     IF i = id THEN NewImage(id)
                                     ELSE s.imageCache[i]],
                  !.imageLoadQueue = Append(@, id),
                  !.created[id] = @ + 1,
                  !.lastCall = [id |-> id, cached |-> FALSE]])

\* loadImage without the cache lookup: every call allocates a new Image.
loadImage_NoCacheCheck(s, id) == CreateAndEnqueue(s, id)

\* loadImage that queues a cached entry again once its load has failed.
loadImage_RetryFailed(s, id) ==
    IF id \in DOMAIN s.imageCache /\ s.imageCache[id].status # "failed"
    THEN [s EXCEPT !.lastCall = [id |-> id, cached |-> TRUE]]
    ELSE CreateAndEnqueue(s, id)

\* loadImage(id): return the cached Image, or create one.
loadImage(s, id) ==
    IF id \in DOMAIN s.imageCache
    THEN [s EXCEPT !.lastCall = [id |-> id, cached |-> TRUE]]
    ELSE CreateAndEnqueue(s, id)

\* A completion callback that forgets to run the queue again.
Completion_NoRestart(s, id, outcome) ==
    [s EXCEPT !.imageCache[id].status = outcome, !.currentLoads = @ - 1]

\* A completion callback that drops a failed entry from the cache.
Completion_EvictFailed(s, id, outcome) ==
    processImageQueue(
        [s EXCEPT !.imageCache =
                      IF outcome = "failed"
                      THEN [i \in DOMAIN s.imageCache \ {id} |->
                               s.imageCache[i]]
                      ELSE [s.imageCache EXCEPT ![id].status = outcome],
                  !.currentLoads = @ - 1])

\* What a completion callback does once the browser has settled the image
\* with the given outcome: this.currentLoads--; this.processImageQueue().
Completion(s, id, outcome) ==
    processImageQueue(
        [s EXCEPT !.imageCache[id].status = outcome, !.currentLoads = @ - 1])

\* The browser fires onload or onerror once for an image whose src was set.
Loading(id) == id \in DOMAIN imageCache /\ imageCache[id].status = "loading"

imgOnload(id) == Loading(id) /\ SetLoader(Completion(Loader, id, "loaded"))

imgOnerror(id) == Loading(id) /\ SetLoader(Completion(Loader, id, "failed"))

-----------------------------------------------------------------------------
(* Spatial index: class QuadTree *)

\* Defaults of the QuadTree constructor, and the coordinate scaling of
\* EmbeddingMap.
DefaultCapacity == 4
DefaultMaxDepth == 8
SCALE_FACTOR == 50

\* The children of a node, in the order insert and query visit them.
Quadrants == <<"nw", "ne", "sw", "se">>

Root == <<>>

Child(n, k) == Append(n, Quadrants[k])

\* new QuadTree(bounds, capacity, maxDepth, depth)
QuadTreeNew(b, capacity, maxDepth, depth) ==
    [bounds |-> b, capacity |-> capacity, maxDepth |-> maxDepth,
     depth |-> depth, points |-> <<>>, divided |-> FALSE]

\* width / 2 and height / 2 (exact for the regions of the model).
Half(w) == w \div 2

\* subdivide(): create the four children of node n and mark it divided.
subdivide(t, n) ==
    LET b == t[n].bounds
        w == Half(b.width)
        h == Half(b.height)
        kid(bx, by) ==
            QuadTreeNew([x |-> bx, y |-> by, width |-> w, height |-> h],
                        t[n].capacity, t[n].maxDepth, t[n].depth + 1)
    IN  [m \in DOMAIN t \cup {Child(n, k) : k \in 1..4} |->
            IF m = Child(n, 1) THEN kid(b.x, b.y)
            ELSE IF m = Child(n, 2) THEN kid(b.x + w, b.y)
            ELSE IF m = Child(n, 3) THEN kid(b.x, b.y + h)
            ELSE IF m = Child(n, 4) THEN kid(b.x + w, b.y + h)
            ELSE IF m = n THEN [t[n] EXCEPT !.divided = TRUE]
            ELSE t[m]]

\* contains with the lower edges strict as well.
contains_StrictLower(node, point) ==
    /\ point.x > node.bounds.x
    /\ point.x < node.bounds.x + node.bounds.width
    /\ point.y > node.bounds.y
    /\ point.y < node.bounds.y + node.bounds.height

\* contains with the upper edges included as well.
contains_Closed(node, point) ==
    /\ point.x >= node.bounds.x
    /\ point.x <= node.bounds.x + node.bounds.width
    /\ point.y >= node.bounds.y
    /\ point.y <= node.bounds.y + node.bounds.height

\* contains(point): half-open, the lower edges included.
contains(node, point) ==
    /\ point.x >= node.bounds.x
    /\ point.x < node.bounds.x + node.bounds.width
    /\ point.y >= node.bounds.y
    /\ point.y < node.bounds.y + node.bounds.height

\* The store-here test of insert without the depth test.
StoresHere_CapacityOnly(node) == Len(node.points) < node.capacity

\* The store-here test of insert with <= for <.
StoresHere_OneMore(node) ==
    Len(node.points) <= node.capacity \/ node.depth >= node.maxDepth

\* The store-here test of insert: room left, or maximum depth reached.
StoresHere(node) ==
    Len(node.points) < node.capacity \/ node.depth >= node.maxDepth

\* insert(point) on node n of tree t: [ok |-> the return value, tree |-> the
\* tree afterwards].  The children are tried in order, stopping at the first
\* that accepts (the || chain).
RECURSIVE insert(_, _, _)
RECURSIVE insertInto(_, _, _, _)
\* The || chain of insert cut after the nw child.
insertInto_FirstChildOnly(t, n, k, point) == insert(t, Child(n, 1), point)

insertInto(t, n, k, point) ==
    IF k > 4 THEN [ok |-> FALSE, tree |-> t]
    ELSE LET r == insert(t, Child(n, k), point)
         IN  IF r.ok THEN r ELSE insertInto(r.tree, n, k + 1, point)

insert(t, n, point) ==
    IF ~contains(t[n], point) THEN [ok |-> FALSE, tree |-> t]
    ELSE IF StoresHere(t[n])
    THEN [ok |-> TRUE, tree |-> [t EXCEPT ![n].points = Append(@, point)]]
    ELSE insertInto(IF t[n].divided THEN t ELSE subdivide(t, n), n, 1, point)

\* intersects with the lower-edge comparisons non-strict.
intersects_TouchExcluded(node, range) ==
    ~ \/ range.x > node.bounds.x + node.bounds.width
      \/ range.x + range.width <= node.bounds.x
      \/ range.y > node.bounds.y + node.bounds.height
      \/ range.y + range.height <= node.bounds.y

\* intersects(range)
intersects(node, range) ==
    ~ \/ range.x > node.bounds.x + node.bounds.width
      \/ range.x + range.width < node.bounds.x
      \/ range.y > node.bounds.y + node.bounds.height
      \/ range.y + range.height < node.bounds.y

\* pointInRange that tests the lower edges only.
pointInRange_LowerOnly(point, range) ==
    /\ point.x >= range.x
    /\ point.y >= range.y

\* pointInRange(point, range): inclusive on all four edges.
pointInRange(point, range) ==
    /\ point.x >= range.x
    /\ point.x <= range.x + range.width
    /\ point.y >= range.y
    /\ point.y <= range.y + range.height

\* The node's own points that lie in the range, in stored order.
RECURSIVE PointsInRange(_, _)
PointsInRange(pts, range) ==
    IF pts = <<>> THEN <<>>
    ELSE (IF pointInRange(Head(pts), range) THEN <<Head(pts)>> ELSE <<>>)
         \o PointsInRange(Tail(pts), range)

\* query(range, found) on node n of tree t: found with the matches appended.
RECURSIVE query(_, _, _, _)
query(t, n, range, found) ==
    IF ~intersects(t[n], range) THEN found
    ELSE LET own == found \o PointsInRange(t[n].points, range)
         IN  IF t[n].divided
             THEN query(t, Child(n, 4), range,
                    query(t, Child(n, 3), range,
                      query(t, Child(n, 2), range,
                        query(t, Child(n, 1), range, own))))
             ELSE own

-----------------------------------------------------------------------------
(* Building the index: EmbeddingMap.loadData *)

\* A world value given in whole world units, in the model's fixed point.
W(v) == v * WS

\* loadData: point coordinates scaled by SCALE_FACTOR.
ScalePoint(point) ==
    [point EXCEPT !.x = W(point.x * SCALE_FACTOR),
                  !.y = W(point.y * SCALE_FACTOR)]

\* loadData: bounds scaled by SCALE_FACTOR.
ScaleBounds(b) ==
    [minX |-> W(b.minX * SCALE_FACTOR), minY |-> W(b.minY * SCALE_FACTOR),
     maxX |-> W(b.maxX * SCALE_FACTOR), maxY |-> W(b.maxY * SCALE_FACTOR)]

\* loadData: the region of the index, the scaled bounds padded on all sides.
QtBounds(b) ==
    LET padding == W(10 * SCALE_FACTOR) IN
    [x |-> b.minX - padding, y |-> b.minY - padding,
     width |-> (b.maxX - b.minX) + padding * 2,
     height |-> (b.maxY - b.minY) + padding * 2]

\* The bounds rectangle of the model's dataset, in data units.
DataBounds == [minX |-> -100, minY |-> -68, maxX |-> 100, maxY |-> 68]

\* Positions (data units) the points of a dataset are drawn from: the two
\* corners of the bounds, the centre, which lies on the edges of all four
\* quadrants of the root, and a point of the north-east quadrant.
PointPositions == {<<-100, -68>>, <<0, 0>>, <<100, 68>>, <<50, -34>>}

\* Constructor arguments the index is built with: the defaults loadData
\* uses, and small ones under which few points reach maxDepth.
TreeConfigs ==
    {[capacity |-> DefaultCapacity, maxDepth |-> DefaultMaxDepth],
     [capacity |-> 1, maxDepth |-> DefaultMaxDepth],
     [capacity |-> 1, maxDepth |-> 1]}

\* Query rectangles (world units): the whole region; two rectangles whose
\* edges pass through points and quadrant edges; a zero-size rectangle on a
\* point; one of negative width; one outside the region; a zero-size
\* rectangle on no point; one of zero width and one of negative height
\* through the centre.
QueryRanges ==
    {[x |-> W(-5500), y |-> W(-3900), width |-> W(11000), height |-> W(7800)],
     [x |-> W(-5000), y |-> W(-3400), width |-> W(5000), height |-> W(3400)],
     [x |-> W(0), y |-> W(0), width |-> W(5000), height |-> W(3400)],
     [x |-> W(0), y |-> W(0), width |-> W(0), height |-> W(0)],
     [x |-> W(5000), y |-> W(3400), width |-> W(-10000), height |-> W(100)],
     [x |-> W(6000), y |-> W(0), width |-> W(50), height |-> W(50)],
     [x |-> W(10), y |-> W(10), width |-> W(0), height |-> W(0)],
     [x |-> W(0), y |-> W(-3400), width |-> W(0), height |-> W(6800)],
     [x |-> W(-5000), y |-> W(0), width |-> W(10000), height |-> W(-100)]}

-----------------------------------------------------------------------------
(* Camera: EmbeddingMap.resetView, screenToWorld, getViewportBounds *)

\* Division of the fixed-point arithmetic, truncating toward zero (b > 0).
TDiv(a, b) == IF a >= 0 THEN a \div b ELSE -((-a) \div b)

Abs(v) == IF v >= 0 THEN v ELSE -v

Min(a, b) == IF a <= b THEN a ELSE b

Max(a, b) == IF a >= b THEN a ELSE b

\* The limits 0.05 and 20 that onWheel and zoomOut write as literals.
ZoomMin == (5 * FS) \div 100
ZoomMax == 20 * FS

\* resetView() with bounds b: the view centred on the data, scaled so that
\* the data fits the canvas with a margin.  The result is assigned to both
\* this.camera and this.targetCamera.
resetView(b) ==
    LET dataWidth == b.maxX - b.minX
        dataHeight == b.maxY - b.minY
        zoomX == TDiv(canvas.width * WS * FS, dataWidth)
        zoomY == TDiv(canvas.height * WS * FS, dataHeight)
    IN  [x |-> TDiv(b.minX + b.maxX, 2),
         y |-> TDiv(b.minY + b.maxY, 2),
         zoom |-> TDiv(Min(zoomX, zoomY) * 95, 100)]

\* (v - canvasSize / 2) / zoom, a screen offset from the canvas centre taken
\* to world units.
Unproject(v, size, zoom) == TDiv((v - size \div 2) * WS * FS, zoom)

\* screenToWorld(x, y), with this.camera passed as cam.
screenToWorld(cam, x, y) ==
    [x |-> Unproject(x, canvas.width, cam.zoom) + cam.x,
     y |-> Unproject(y, canvas.height, cam.zoom) + cam.y]

\* worldToScreen without the offset to the canvas centre.
worldToScreen_NoCentre(cam, x, y) ==
    [x |-> TDiv((x - cam.x) * cam.zoom, WS),
     y |-> TDiv((y - cam.y) * cam.zoom, WS)]

\* worldToScreen(x, y), with this.camera passed as cam; the result is in
\* 1/FS pixels.
worldToScreen(cam, x, y) ==
    [x |-> TDiv((x - cam.x) * cam.zoom, WS) + (canvas.width \div 2) * FS,
     y |-> TDiv((y - cam.y) * cam.zoom, WS) + (canvas.height \div 2) * FS]

\* getViewportBounds()
getViewportBounds(cam) ==
    LET topLeft == screenToWorld(cam, 0, 0)
        bottomRight == screenToWorld(cam, canvas.width, canvas.height)
    IN  [x |-> topLeft.x, y |-> topLeft.y,
         width |-> bottomRight.x - topLeft.x,
         height |-> bottomRight.y - topLeft.y]

\* points.filter(p => this.filteredIds.has(p.id))
RECURSIVE FilterPoints(_, _)
FilterPoints(pts, ids) ==
    IF pts = <<>> THEN <<>>
    ELSE (IF Head(pts).id \in ids THEN <<Head(pts)>> ELSE <<>>)
         \o FilterPoints(Tail(pts), ids)

\* getVisiblePoints() without the viewport query: every point of the dataset
\* that passes the filter.
getVisiblePoints_NoCulling(cam) ==
    IF quadTree = <<>> THEN <<>>
    ELSE IF filteredIds # <<>> THEN FilterPoints(allPoints, filteredIds[1])
    ELSE allPoints

\* getVisiblePoints(): the index queried with the viewport, then narrowed to
\* the filter set when one is active.  filteredIds is <<>> for null and
\* <<S>> for the Set S.
getVisiblePoints(cam) ==
    IF quadTree = <<>> THEN <<>>
    ELSE LET points == query(quadTree, Root, getViewportBounds(cam), <<>>)
         IN  IF filteredIds # <<>> THEN FilterPoints(points, filteredIds[1])
             ELSE points

-----------------------------------------------------------------------------
(* Pointer input: onMouseDown, onMouseMove, onMouseUp, onWheel, touch *)

\* The loop of updateHover: the point of pts nearest to world position w
\* among those strictly closer than r, the first such on ties; best is <<>>
\* or <<[id, d2]>> with d2 the squared distance.
RECURSIVE Closest(_, _, _, _)
Closest(pts, w, r, best) ==
    IF pts = <<>> THEN best
    ELSE LET p == Head(pts)
             dx == Abs(p.x - w.x)
             dy == Abs(p.y - w.y)
             closer == /\ dx < r
                       /\ dy < r
                       /\ dx * dx + dy * dy < r * r
                       /\ \/ best = <<>>
                          \/ dx * dx + dy * dy < best[1].d2
         IN  Closest(Tail(pts), w, r,
                     IF closer
                     THEN <<[id |-> p.id, d2 |-> dx * dx + dy * dy]>>
                     ELSE best)

\* updateHover(x, y): the new value of this.hoveredPoint, <<>> for null.
updateHover(x, y) ==
    LET hoverRadius == TDiv(30 * FS * WS, camera.zoom)
        closestPoint == Closest(getVisiblePoints(camera),
                                screenToWorld(camera, x, y), hoverRadius, <<>>)
    IN  IF closestPoint = <<>> THEN <<>> ELSE <<closestPoint[1].id>>

onMouseDown(pos) ==
    /\ isDragging' = TRUE
    /\ lastMouse' = pos
    /\ velocity' = [x |-> 0, y |-> 0]
    /\ UNCHANGED <<camera, targetCamera, hoveredPoint>>

\* The drag branch of onMouseMove applied to the current transform.
onMouseMove_MovesCurrent(pos) ==
    IF isDragging
    THEN LET dx == pos.x - lastMouse.x
             dy == pos.y - lastMouse.y
         IN  /\ velocity' = [x |-> dx * FS, y |-> dy * FS]
             /\ camera' =
                    [camera EXCEPT
                        !.x = @ - TDiv(dx * WS * FS, camera.zoom),
                        !.y = @ - TDiv(dy * WS * FS, camera.zoom)]
             /\ lastMouse' = pos
             /\ UNCHANGED <<targetCamera, isDragging, hoveredPoint>>
    ELSE /\ hoveredPoint' = updateHover(pos.x, pos.y)
         /\ UNCHANGED <<camera, targetCamera, isDragging, lastMouse, velocity>>

\* onMouseMove(e): while dragging, the target moves by the pointer's
\* displacement over the current zoom and the displacement becomes the
\* velocity (kept in 1/FS pixels); otherwise the hovered point is updated.
onMouseMove(pos) ==
    IF isDragging
    THEN LET dx == pos.x - lastMouse.x
             dy == pos.y - lastMouse.y
         IN  /\ velocity' = [x |-> dx * FS, y |-> dy * FS]
             /\ targetCamera' =
                    [targetCamera EXCEPT
                        !.x = @ - TDiv(dx * WS * FS, camera.zoom),
                        !.y = @ - TDiv(dy * WS * FS, camera.zoom)]
             /\ lastMouse' = pos
             /\ UNCHANGED <<camera, isDragging, hoveredPoint>>
    ELSE /\ hoveredPoint' = updateHover(pos.x, pos.y)
         /\ UNCHANGED <<camera, targetCamera, isDragging, lastMouse, velocity>>

onMouseUp ==
    /\ isDragging' = FALSE
    /\ UNCHANGED <<camera, targetCamera, lastMouse, velocity, hoveredPoint>>

\* onWheel(e) at canvas position pos; up is e.deltaY < 0.  The position
\* under the cursor is taken with the current transform before and with the
\* target transform at the new zoom after.
onWheel(pos, up) ==
    LET worldPosBefore == screenToWorld(camera, pos.x, pos.y)
        scaled == IF up THEN TDiv(targetCamera.zoom * 11, 10)
                  ELSE TDiv(targetCamera.zoom * 9, 10)
        newZoom == Max(ZoomMin, Min(ZoomMax, scaled))
        worldPosAfter ==
            screenToWorld([targetCamera EXCEPT !.zoom = newZoom], pos.x, pos.y)
    IN  /\ targetCamera' =
               [x |-> targetCamera.x + (worldPosBefore.x - worldPosAfter.x),
                y |-> targetCamera.y + (worldPosBefore.y - worldPosAfter.y),
                zoom |-> newZoom]
        /\ UNCHANGED <<camera, interactionVars>>

\* onTouchStart(e) with `touches` fingers down, the first at pos.
onTouchStart(touches, pos) ==
    IF touches = 1 THEN onMouseDown(pos)
    ELSE UNCHANGED <<cameraVars, interactionVars>>

onTouchMove(touches, pos) ==
    IF touches = 1 /\ isDragging THEN onMouseMove(pos)
    ELSE UNCHANGED <<cameraVars, interactionVars>>

onTouchEnd == onMouseUp

-----------------------------------------------------------------------------
(* Host commands: zoomIn, zoomOut, panTo, setFilter, clearFilter *)

zoomIn ==
    /\ targetCamera' = [targetCamera EXCEPT !.zoom = TDiv(@ * 13, 10)]
    /\ UNCHANGED <<camera, interactionVars>>

zoomOut ==
    /\ targetCamera' =
           [targetCamera EXCEPT !.zoom = Max(ZoomMin, TDiv(@ * 10, 13))]
    /\ UNCHANGED <<camera, interactionVars>>

\* panTo(x, y, zoom); zoom is <<>> when the argument is omitted.
panTo(x, y, zoom) ==
    /\ targetCamera' = [x |-> x, y |-> y,
                        zoom |-> IF zoom # <<>> THEN zoom[1]
                                 ELSE targetCamera.zoom]
    /\ UNCHANGED <<camera, interactionVars>>

\* search.onResultClick(pointId) of App.setupEventHandlers:
\* panTo(point.x, point.y, 2.0) when the point exists.
onResultClick(pointId) ==
    IF pointId \in 1..Len(allPoints)
    THEN panTo(allPoints[pointId].x, allPoints[pointId].y, <<2 * FS>>)
    ELSE UNCHANGED <<cameraVars, interactionVars>>

\* The zoomResetBtn / '0' key handler: resetView(), which returns at once
\* when no bounds are loaded.
resetViewCommand ==
    /\ IF bounds = <<>> THEN UNCHANGED cameraVars
       ELSE /\ camera' = resetView(bounds[1])
            /\ targetCamera' = camera'
    /\ UNCHANGED interactionVars

setFilter(ids) == filteredIds' = <<ids>>

clearFilter == filteredIds' = <<>>

-----------------------------------------------------------------------------
(* The render loop: update() then render() *)

\* c += (t - c) * 0.15
Lerp(c, t) == c + TDiv((t - c) * 15, 100)

\* update() with a velocity that is not damped.
update_NoDecay ==
    LET cam == [x |-> Lerp(camera.x, targetCamera.x),
                y |-> Lerp(camera.y, targetCamera.y),
                zoom |-> Lerp(camera.zoom, targetCamera.zoom)]
        coasting == /\ ~isDragging
                    /\ \/ Abs(velocity.x) * 10 > FS
                       \/ Abs(velocity.y) * 10 > FS
    IN  [camera |-> cam,
         targetCamera |->
             IF coasting
             THEN [targetCamera EXCEPT
                      !.x = @ - TDiv(velocity.x * WS, cam.zoom),
                      !.y = @ - TDiv(velocity.y * WS, cam.zoom)]
             ELSE targetCamera,
         velocity |-> velocity]

\* update() that applies the momentum whether or not a drag is active.
update_MomentumAlways ==
    LET cam == [x |-> Lerp(camera.x, targetCamera.x),
                y |-> Lerp(camera.y, targetCamera.y),
                zoom |-> Lerp(camera.zoom, targetCamera.zoom)]
        vel == [x |-> TDiv(velocity.x * 92, 100),
                y |-> TDiv(velocity.y * 92, 100)]
        coasting == Abs(vel.x) * 10 > FS \/ Abs(vel.y) * 10 > FS
    IN  [camera |-> cam,
         targetCamera |->
             IF coasting
             THEN [targetCamera EXCEPT !.x = @ - TDiv(vel.x * WS, cam.zoom),
                                       !.y = @ - TDiv(vel.y * WS, cam.zoom)]
             ELSE targetCamera,
         velocity |-> vel]

\* update(): [camera, targetCamera, velocity] afterwards.  The momentum
\* divides by the zoom already interpolated.
update ==
    LET cam == [x |-> Lerp(camera.x, targetCamera.x),
                y |-> Lerp(camera.y, targetCamera.y),
                zoom |-> Lerp(camera.zoom, targetCamera.zoom)]
        vel == IF isDragging THEN velocity
               ELSE [x |-> TDiv(velocity.x * 92, 100),
                     y |-> TDiv(velocity.y * 92, 100)]
        coasting == /\ ~isDragging
                    /\ \/ Abs(vel.x) * 10 > FS
                       \/ Abs(vel.y) * 10 > FS
    IN  [camera |-> cam,
         targetCamera |->
             IF coasting
             THEN [targetCamera EXCEPT !.x = @ - TDiv(vel.x * WS, cam.zoom),
                                       !.y = @ - TDiv(vel.y * WS, cam.zoom)]
             ELSE targetCamera,
         velocity |-> vel]

\* A JavaScript number: finite (v in 1/FS), Infinity (v is the sign) or NaN.
Finite(v) == [kind |-> "finite", v |-> v]
Infinite(sign) == [kind |-> "Infinity", v |-> sign]
NaN == [kind |-> "NaN", v |-> 0]

\* 2.5 * (scaledDataWidth / viewportWidth): division by zero gives Infinity,
\* and 0 / 0 gives NaN.
SizeRatio(scaledDataWidth, viewportWidth) ==
    IF viewportWidth # 0
    THEN Finite(TDiv(scaledDataWidth * 25 * (FS \div 10), viewportWidth))
    ELSE IF scaledDataWidth = 0 THEN NaN
    ELSE Infinite(IF scaledDataWidth > 0 THEN 1 ELSE -1)

\* Math.min(limit, n) and Math.max(limit, n) for a finite limit: NaN if n is.
MathMin(limit, n) ==
    CASE n.kind = "NaN" -> NaN
      [] n.kind = "Infinity" -> IF n.v > 0 THEN Finite(limit) ELSE n
      [] OTHER -> Finite(Min(limit, n.v))

MathMax(limit, n) ==
    CASE n.kind = "NaN" -> NaN
      [] n.kind = "Infinity" -> IF n.v > 0 THEN n ELSE Finite(limit)
      [] OTHER -> Finite(Max(limit, n.v))

\* render(): displaySize = Math.max(2, Math.min(256, displaySize)).
ClampSize(n) == MathMax(2 * FS, MathMin(256 * FS, n))

\* render(): displaySize as a number, from the two widths.
displaySizeOf(scaledDataWidth, viewportWidth) ==
    ClampSize(SizeRatio(scaledDataWidth, viewportWidth))

\* render(): displaySize in 1/FS pixels for a viewport of width vw,
\* 2.5 * (scaledDataWidth / viewportWidth) clamped to [2, 256].
DisplaySize(vw) ==
    LET scaledDataWidth == bounds[1].maxX - bounds[1].minX
    IN  displaySizeOf(scaledDataWidth, vw).v

\* The mode selection with the small tier ending at 16 pixels.
RenderMode_SmallTo16(displaySize) ==
    IF displaySize <= 8 * FS THEN "dot"
    ELSE IF displaySize <= 16 * FS THEN "small"
    ELSE IF displaySize <= 128 * FS THEN "medium"
    ELSE "large"

\* render(): the mode chosen from displaySize.
RenderMode(displaySize) ==
    IF displaySize <= 8 * FS THEN "dot"
    ELSE IF displaySize <= 32 * FS THEN "small"
    ELSE IF displaySize <= 128 * FS THEN "medium"
    ELSE "large"

\* The loadImage calls of one render pass, in drawing order.
RECURSIVE LoadImages(_, _)
LoadImages(s, pts) ==
    IF pts = <<>> THEN s
    ELSE LoadImages(loadImage(s, Head(pts).id), Tail(pts))

\* render(): what is drawn for one point.  s is the scheduler after the
\* point's loadImage call; an image is drawn when it is complete, a
\* placeholder otherwise.
DrawPoint(point, mode, s) ==
    LET outside == filteredIds # <<>> /\ point.id \notin filteredIds[1]
    IN  [id |-> point.id,
         kind |-> IF mode = "dot" THEN "dot"
                  ELSE IF s.imageCache[point.id].status = "loaded"
                  THEN "image" ELSE "placeholder",
         dimmed |-> IF mode = "dot" THEN outside
                    ELSE s.imageCache[point.id].status = "loaded" /\ outside,
         highlighted |-> hoveredPoint = <<point.id>>]

\* render() with the camera cam left by update(): [loader |-> the scheduler
\* afterwards, frame |-> the frame drawn].  With no index loaded the canvas
\* is only cleared.  countNotified lists the arguments of the frame's
\* onVisibleCountChange calls; the callback is installed with the data.
render(cam) ==
    IF quadTree = <<>> THEN [loader |-> Loader, frame |-> <<>>]
    ELSE LET visiblePoints == getVisiblePoints(cam)
             viewport == getViewportBounds(cam)
             displaySize == DisplaySize(viewport.width)
             renderMode == RenderMode(displaySize)
             s == IF renderMode = "dot" THEN Loader
                  ELSE LoadImages(Loader, visiblePoints)
         IN  [loader |-> s,
              frame |-> <<[zoom |-> cam.zoom,
                           viewport |-> viewport,
                           displaySize |-> displaySize,
                           renderMode |-> renderMode,
                           drawn |-> [k \in 1..Len(visiblePoints) |->
                                         DrawPoint(visiblePoints[k],
                                                   renderMode, s)],
                           requested |->
                               IF renderMode = "dot" THEN <<>>
                               ELSE [k \in 1..Len(visiblePoints) |->
                                        visiblePoints[k].id],
                           visibleCount |-> Len(visiblePoints),
                           countNotified |-> <<Len(visiblePoints)>>]>>]

\* One animation frame of startRenderLoop.
renderLoop ==
    \E u \in {update} : \E r \in {render(u.camera)} :
        /\ camera' = u.camera
        /\ targetCamera' = u.targetCamera
        /\ velocity' = u.velocity
        /\ SetLoader(r.loader)
        /\ frame' = r.frame
        /\ UNCHANGED <<isDragging, lastMouse, hoveredPoint>>

-----------------------------------------------------------------------------
(* Loading the dataset: App.processData and EmbeddingMap.loadData *)

\* The insert loop of loadData over pts[lo..hi], in order; return values
\* are dropped.  The range is taken in two halves, the tree after the first
\* bound as a value before the second is taken up, which keeps the
\* evaluation shallow for long lists.
RECURSIVE InsertRange(_, _, _, _)
InsertRange(t, pts, lo, hi) ==
    IF lo > hi THEN t
    ELSE IF lo = hi THEN insert(t, Root, pts[lo]).tree
    ELSE LET mid == (lo + hi) \div 2
         IN  CHOOSE r \in {InsertRange(left, pts, mid + 1, hi) :
                               left \in {InsertRange(t, pts, lo, mid)}} : TRUE

InsertAll(t, pts) == InsertRange(t, pts, 1, Len(pts))

\* loadData(data): scale, build the index with the default capacity and
\* depth, fit the view.
loadData(data) ==
    LET scaled == ScaleBounds(data.bounds)
        points == [k \in 1..Len(data.points) |-> ScalePoint(data.points[k])]
        tree == Root :> QuadTreeNew(QtBounds(scaled), DefaultCapacity,
                                    DefaultMaxDepth, 0)
    IN  /\ allPoints' = points
        /\ bounds' = <<scaled>>
        /\ quadTree' = InsertAll(tree, points)
        /\ camera' = resetView(scaled)
        /\ targetCamera' = camera'
        /\ lastQuery' = <<>>

-----------------------------------------------------------------------------
(* Search: class SearchManager *)

maxResults == 100

\* Text is a sequence of characters.  The characters of the model: two
\* letters in both cases, and the space.
Lower(c) == IF c = "A" THEN "a" ELSE IF c = "B" THEN "b" ELSE c

\* String.prototype.toLowerCase
toLowerCase(text) == [k \in 1..Len(text) |-> Lower(text[k])]

\* String.prototype.trim
RECURSIVE trim(_)
trim(text) ==
    IF text = <<>> THEN text
    ELSE IF Head(text) = " " THEN trim(Tail(text))
    ELSE IF text[Len(text)] = " " THEN trim(SubSeq(text, 1, Len(text) - 1))
    ELSE text

\* The positions at which needle occurs in text, from 0.
Occurrences(text, needle) ==
    {i \in 0..(Len(text) - Len(needle)) :
        SubSeq(text, i + 1, i + Len(needle)) = needle}

\* String.prototype.includes
includes(text, needle) == Occurrences(text, needle) # {}

\* String.prototype.indexOf, for a needle that occurs.
indexOf(text, needle) ==
    CHOOSE i \in Occurrences(text, needle) :
        \A j \in Occurrences(text, needle) : i <= j

\* new SearchManager(): no data, an empty input, no timer, no result list.
\* searchTimeout is <<>> or <<the query the pending timer will search>>;
\* results is the list of ids last displayed, searched the argument of the
\* last performSearch (<<>> before the first).
SearchManagerNew ==
    [allPoints |-> <<>>, input |-> <<>>, searchTimeout |-> <<>>,
     results |-> <<>>, searched |-> <<>>]

\* setData(points)
setData(sm, points) == [sm EXCEPT !.allPoints = points]

\* performSearch: the loop over allPoints, as the list of [point, index] in
\* file order.
Matches(points, lowerQuery) ==
    LET Hit(point) == includes(toLowerCase(point.prompt), lowerQuery)
        hits == SelectSeq(points, Hit)
    IN  [k \in 1..Len(hits) |->
            [point |-> hits[k],
             index |-> indexOf(toLowerCase(hits[k].prompt), lowerQuery)]]

\* The entries of results whose index is i, in order.
WithIndex(results, i) ==
    LET At(r) == r.index = i IN SelectSeq(results, At)

\* results.sort((a, b) => a.index - b.index): stable, by ascending index.
RECURSIVE SortByIndex(_, _, _)
SortByIndex(results, i, maxIndex) ==
    IF i > maxIndex THEN <<>>
    ELSE WithIndex(results, i) \o SortByIndex(results, i + 1, maxIndex)

\* results.sort(...)
sort(results) ==
    LET indices == {results[k].index : k \in 1..Len(results)}
    IN  IF results = <<>> THEN results
        ELSE SortByIndex(results, 0,
                         CHOOSE m \in indices : \A i \in indices : i <= m)

\* results.slice(0, n)
slice(list, n) == SubSeq(list, 1, Min(n, Len(list)))

\* The hand-off of performSearch with every displayed match only.
SearchHandOff_Displayed(sm, text) ==
    IF text = <<>> THEN <<>>
    ELSE LET results == Matches(sm.allPoints, toLowerCase(text))
             limitedResults == slice(sort(results),
                                     maxResults)
         IN  <<{limitedResults[k].point.id : k \in 1..Len(limitedResults)}>>

\* performSearch(text): the argument of onSearchChange, <<>> for null and
\* <<S>> for the Set S.
SearchHandOff(sm, text) ==
    IF text = <<>> THEN <<>>
    ELSE LET results == Matches(sm.allPoints, toLowerCase(text))
         IN  <<{results[k].point.id : k \in 1..Len(results)}>>

\* performSearch(text): the ids of the list displayed (limitedResults);
\* none for an empty text, which hides the list.
SearchDisplayed(sm, text) ==
    IF text = <<>> THEN <<>>
    ELSE LET results == Matches(sm.allPoints, toLowerCase(text))
             limitedResults == slice(sort(results),
                                     maxResults)
         IN  [k \in 1..Len(limitedResults) |-> limitedResults[k].point.id]

-----------------------------------------------------------------------------
(* Start-up: App.init *)

\* The catch of init that also takes the loading overlay down.
initCatch_HidesOverlay(a) ==
    [a EXCEPT !.phase = "error", !.errors = @ + 1, !.overlayHidden = TRUE]

\* The catch of init: showError(error.message) replaces the content of the
\* loading overlay, which stays up.
initCatch(a) == [a EXCEPT !.phase = "error", !.errors = @ + 1]

\* The rest of init after await this.loadData(): setupEventHandlers() and
\* hideLoading().
initDone(a) ==
    [a EXCEPT !.phase = "ready", !.handlers = TRUE, !.overlayHidden = TRUE]

-----------------------------------------------------------------------------
(* Initial states *)

LoaderInit ==
    /\ imageCache = [i \in {} |-> NewImage(i)]
    /\ imageLoadQueue = <<>>
    /\ currentLoads = 0
    /\ fetches = [i \in Ids \cup QueueIds |-> 0]
    /\ created = [i \in Ids \cup QueueIds |-> 0]
    /\ lastCall = [id |-> 0, cached |-> FALSE]

\* The constructor's data fields: no dataset, no index.
NoDataInit ==
    /\ quadTree = <<>>
    /\ allPoints = <<>>
    /\ bounds = <<>>
    /\ lastQuery = <<>>

\* Sizes of the canvas element (CSS pixels): a desktop and a phone layout.
CanvasSizes == <<[width |-> 1000, height |-> 700],
                 [width |-> 376, height |-> 600]>>

\* The constructor's view and interaction fields, on a canvas of size cv.
ViewInit(cv) ==
    /\ canvas = cv
    /\ camera = [x |-> 0, y |-> 0, zoom |-> FS]
    /\ targetCamera = [x |-> 0, y |-> 0, zoom |-> FS]
    /\ isDragging = FALSE
    /\ lastMouse = [x |-> 0, y |-> 0]
    /\ velocity = [x |-> 0, y |-> 0]
    /\ hoveredPoint = <<>>
    /\ filteredIds = <<>>
    /\ frame = <<>>
    /\ steps = 0

\* new App(): init() has built the map and the search and awaits the fetch
\* of data.json; the loading overlay is shown.
HostInit ==
    /\ app = [phase |-> "loading", fetches |-> 1, errors |-> 0,
              overlayHidden |-> FALSE, handlers |-> FALSE]
    /\ hoverCalls = 0
    /\ probe = <<>>
    /\ search = SearchManagerNew

\* The state in loadData after new QuadTree(qtBounds), before any insert,
\* with the constructor arguments cfg.
IndexCreated(cfg) ==
    /\ bounds = <<ScaleBounds(DataBounds)>>
    /\ quadTree = (Root :> QuadTreeNew(QtBounds(ScaleBounds(DataBounds)),
                                       cfg.capacity, cfg.maxDepth, 0))
    /\ allPoints = <<>>
    /\ lastQuery = <<>>

LoaderStart ==
    LoaderInit /\ NoDataInit /\ ViewInit(CanvasSizes[1]) /\ HostInit

TreeStart ==
    /\ LoaderInit
    /\ ViewInit(CanvasSizes[1])
    /\ HostInit
    /\ \E cfg \in TreeConfigs : IndexCreated(cfg)

\* After new EmbeddingMap(canvas, minimap) in App.init, on either canvas.
MapStart ==
    /\ LoaderInit
    /\ NoDataInit
    /\ HostInit
    /\ \E k \in 1..Len(CanvasSizes) : ViewInit(CanvasSizes[k])

-----------------------------------------------------------------------------
(* The index built point by point: TreeSpec *)

\* One turn of loadData's loop: this.quadTree.insert(point) for the next
\* point of the dataset (the return value is dropped).
InsertPoint(pos) ==
    /\ Len(allPoints) < MaxPoints
    /\ LET point == ScalePoint([id |-> Len(allPoints) + 1,
                                x |-> pos[1], y |-> pos[2]])
       IN  /\ quadTree' = insert(quadTree, Root, point).tree
           /\ allPoints' = Append(allPoints, point)
    /\ lastQuery' = <<>>
    /\ UNCHANGED bounds
    /\ UNCHANGED <<loaderVars, viewVars, hostVars>>

\* this.quadTree.query(range)
QueryCall(range) ==
    /\ lastQuery' = <<[range |-> range,
                       found |-> query(quadTree, Root, range, <<>>)]>>
    /\ UNCHANGED <<quadTree, allPoints, bounds>>
    /\ UNCHANGED <<loaderVars, viewVars, hostVars>>

TreeNext ==
    \/ \E pos \in PointPositions : InsertPoint(pos)
    \/ \E range \in QueryRanges : QueryCall(range)

\* The index being built point by point, queried at any moment.
TreeSpec == TreeStart /\ [][TreeNext]_vars

-----------------------------------------------------------------------------
(* The image load scheduler on its own: LoaderSpec, FairLoaderSpec *)

\* loadImage called by any caller, for any id.
LoadImageCall(id) ==
    SetLoader(loadImage(Loader, id)) /\ UNCHANGED <<treeVars, viewVars, hostVars>>

ImgOnloadEvent(id) == imgOnload(id) /\ UNCHANGED <<treeVars, viewVars, hostVars>>

ImgOnerrorEvent(id) == imgOnerror(id) /\ UNCHANGED <<treeVars, viewVars, hostVars>>

LoaderNext ==
    \E id \in Ids :
        LoadImageCall(id) \/ ImgOnloadEvent(id) \/ ImgOnerrorEvent(id)

\* The scheduler driven by arbitrary loadImage calls and completions.
LoaderSpec == LoaderStart /\ [][LoaderNext]_vars

\* For the liveness check: a call for a cached id leaves the scheduler as it
\* is, and the scheduler treats ids alike, so only first requests are taken,
\* in increasing id order.
FirstRequest(id) ==
    /\ id \notin DOMAIN imageCache
    /\ \A j \in 1..(id - 1) : j \in DOMAIN imageCache
    /\ LoadImageCall(id)

FairLoaderNext ==
    \E id \in QueueIds :
        FirstRequest(id) \/ ImgOnloadEvent(id) \/ ImgOnerrorEvent(id)

\* Every started fetch eventually completes or fails: the browser settles
\* each image whose src was assigned.
FairLoaderSpec ==
    /\ LoaderStart
    /\ [][FairLoaderNext]_vars
    /\ \A id \in QueueIds :
           WF_vars(ImgOnloadEvent(id) \/ ImgOnerrorEvent(id))

-----------------------------------------------------------------------------
(* The whole viewer: MapSpec *)

\* Positions (data units) of the points of a dataset, in file order: the
\* centre, the corners of the bounds, and points of the four quadrants.
DatasetPositions ==
    <<<<0, 0>>, <<-100, -68>>, <<100, 68>>, <<50, -34>>, <<-50, 34>>,
      <<25, 17>>, <<-25, -17>>>>

\* data.json with n points, ids 1..n.
Dataset(n) ==
    [bounds |-> DataBounds,
     points |-> [k \in 1..n |->
                    LET pos == DatasetPositions[
                                   ((k - 1) % Len(DatasetPositions)) + 1]
                    IN  [id |-> k, x |-> pos[1], y |-> pos[2]]]]

Datasets == {Dataset(2), Dataset(MaxPoints)}

\* Pointer positions on the canvas: its centre and the centre of its upper
\* left quarter.
ScreenPositions ==
    {[x |-> canvas.width \div 2, y |-> canvas.height \div 2],
     [x |-> canvas.width \div 4, y |-> canvas.height \div 4]}

\* Sets of matching ids a search hands to setFilter: no match, one, two.
FilterSets == {{}, {1}, {2, 3}}

\* Input events and frames are counted; the model stops after MaxSteps.
Counted == steps < MaxSteps /\ steps' = steps + 1

\* What no pointer handler and no camera command touches.
restVars ==
    <<loaderVars, treeVars, canvas, filteredIds, frame, app, probe, search>>

\* App.init: data.json arrives, processData runs loadData, and
\* setupEventHandlers installs the host commands.
LoadData(data) ==
    /\ app.phase = "loading"
    /\ quadTree = <<>>
    /\ loadData(data)
    /\ search' = setData(search, data.points)
    /\ app' = initDone(app)
    /\ UNCHANGED <<loaderVars, interactionVars, canvas, filteredIds, frame,
                   steps, hoverCalls, probe>>

\* App.init: the fetch of data.json rejects, answers with a status that is
\* not ok, or delivers text that does not parse; loadData rethrows and the
\* catch of init runs.
LoadFails(cause) ==
    /\ app.phase = "loading"
    /\ app' = initCatch(app)
    /\ UNCHANGED <<loaderVars, treeVars, viewVars, hoverCalls, probe, search>>

\* One callback of requestAnimationFrame.
AnimationFrame ==
    /\ renderLoop
    /\ hoverCalls' = 0
    /\ UNCHANGED <<treeVars, canvas, filteredIds, app, probe, search>>

Tick == Counted /\ AnimationFrame

MouseDown(pos) ==
    Counted /\ onMouseDown(pos) /\ UNCHANGED <<restVars, hoverCalls>>

\* updateHover calls this.onHoverChange when the hovered point changed; no
\* other code assigns this.hoveredPoint.
HoverNotified ==
    hoverCalls' = hoverCalls + (IF hoveredPoint' # hoveredPoint THEN 1 ELSE 0)

MouseMove(pos) ==
    Counted /\ onMouseMove(pos) /\ HoverNotified /\ UNCHANGED restVars

MouseUp ==
    Counted /\ onMouseUp /\ UNCHANGED <<restVars, hoverCalls>>

Wheel(pos, up) ==
    Counted /\ onWheel(pos, up) /\ UNCHANGED <<restVars, hoverCalls>>

TouchStart(touches, pos) ==
    Counted /\ onTouchStart(touches, pos)
    /\ UNCHANGED <<restVars, hoverCalls>>

TouchMove(touches, pos) ==
    Counted /\ onTouchMove(touches, pos) /\ HoverNotified
    /\ UNCHANGED restVars

TouchEnd ==
    Counted /\ onTouchEnd /\ UNCHANGED <<restVars, hoverCalls>>

\* The host commands exist once setupEventHandlers has run, after loadData.
HandlersInstalled == quadTree # <<>>

ZoomIn ==
    HandlersInstalled /\ Counted /\ zoomIn /\ UNCHANGED <<restVars, hoverCalls>>

ZoomOut ==
    HandlersInstalled /\ Counted /\ zoomOut /\ UNCHANGED <<restVars, hoverCalls>>

ResetView ==
    HandlersInstalled /\ Counted /\ resetViewCommand
    /\ UNCHANGED <<restVars, hoverCalls>>

ResultClick(pointId) ==
    HandlersInstalled /\ Counted /\ onResultClick(pointId)
    /\ UNCHANGED <<restVars, hoverCalls>>

\* search.onSearchChange(filteredIds) with a Set
SetFilter(ids) ==
    /\ HandlersInstalled
    /\ Counted
    /\ setFilter(ids)
    /\ UNCHANGED <<loaderVars, treeVars, cameraVars, interactionVars, canvas,
                   frame, hostVars>>

\* search.onSearchChange(null)
ClearFilter ==
    /\ HandlersInstalled
    /\ Counted
    /\ clearFilter
    /\ UNCHANGED <<loaderVars, treeVars, cameraVars, interactionVars, canvas,
                   frame, hostVars>>

PointerInput ==
    \/ \E pos \in ScreenPositions : MouseDown(pos)
    \/ \E pos \in ScreenPositions : MouseMove(pos)
    \/ MouseUp
    \/ \E pos \in ScreenPositions, up \in BOOLEAN : Wheel(pos, up)
    \/ \E touches \in 1..2, pos \in ScreenPositions : TouchStart(touches, pos)
    \/ \E touches \in 1..2, pos \in ScreenPositions : TouchMove(touches, pos)
    \/ TouchEnd

HostCommand ==
    \/ ZoomIn
    \/ ZoomOut
    \/ ResetView
    \/ \E pointId \in 1..MaxPoints : ResultClick(pointId)

\* The ways the load of data.json fails.
FailureCauses == {"rejected", "not ok", "parse error"}

MapNext ==
    \/ \E data \in Datasets : LoadData(data)
    \/ \E cause \in FailureCauses : LoadFails(cause)
    \/ Tick
    \/ \E pos \in ScreenPositions : MouseDown(pos)
    \/ \E pos \in ScreenPositions : MouseMove(pos)
    \/ MouseUp
    \/ \E pos \in ScreenPositions, up \in BOOLEAN : Wheel(pos, up)
    \/ \E touches \in 1..2, pos \in ScreenPositions : TouchStart(touches, pos)
    \/ \E touches \in 1..2, pos \in ScreenPositions : TouchMove(touches, pos)
    \/ TouchEnd
    \/ ZoomIn
    \/ ZoomOut
    \/ ResetView
    \/ \E pointId \in 1..MaxPoints : ResultClick(pointId)
    \/ \E ids \in FilterSets : SetFilter(ids)
    \/ ClearFilter
    \/ \E id \in Ids : ImgOnloadEvent(id)
    \/ \E id \in Ids : ImgOnerrorEvent(id)

MapSpec == MapStart /\ [][MapNext]_vars

-----------------------------------------------------------------------------
(* A result is selected and the thumbnails around it load: ThumbnailSpec *)

\* data.json with n points clustered round the centre of the bounds, close
\* enough together to be on screen at once in a thumbnail mode.
ClusterDataset(n) ==
    [bounds |-> DataBounds,
     points |-> [k \in 1..n |-> [id |-> k, x |-> 2 * (k - 1) - 7,
                                 y |-> (k - 1) - 3]]]

\* The viewer with more points on screen than loads may run at once; the
\* user selects the first result and watches.
ThumbnailNext ==
    \/ LoadData(ClusterDataset(MaxIds))
    \/ ResultClick(1)
    \/ Tick
    \/ \E id \in Ids : ImgOnloadEvent(id)
    \/ \E id \in Ids : ImgOnerrorEvent(id)

ThumbnailSpec == MapStart /\ [][ThumbnailNext]_vars

-----------------------------------------------------------------------------
(* A drag at zoom 2 and its release: MomentumSpec *)

\* The pointer goes down at the canvas centre and moves 50 pixels right.
DragFrom == [x |-> canvas.width \div 2, y |-> canvas.height \div 2]

DragTo == [x |-> canvas.width \div 2 + 50, y |-> canvas.height \div 2]

\* An animation frame outside the count of steps.
Coast == AnimationFrame /\ UNCHANGED steps

\* The interpolation of update() has come to rest.
AtRest == update.camera = camera

\* The scenario: the data loads and is drawn fitted to the canvas; the
\* first result is selected (panTo at zoom 2.0) and the view comes to rest
\* there; the pointer goes down, moves by (50, 0) and is released; then
\* only animation frames follow.
MomentumNext ==
    \/ LoadData(Dataset(2))
    \/ steps = 0 /\ quadTree # <<>> /\ Coast
    \/ steps = 0 /\ ResultClick(1)
    \/ steps = 1 /\ ~AtRest /\ Coast
    \/ steps = 1 /\ AtRest /\ MouseDown(DragFrom)
    \/ steps = 2 /\ MouseMove(DragTo)
    \/ steps = 3 /\ MouseUp
    \/ steps = 4 /\ Coast

\* requestAnimationFrame keeps calling the render loop.
MomentumSpec == MapStart /\ [][MomentumNext]_vars /\ WF_vars(Coast)

-----------------------------------------------------------------------------
(* SearchSpec: the search box and the filter it hands to the map *)

\* The prompts of the search dataset, taken in turn.
PromptList ==
    <<<<"a", "B", "b">>, <<"B", "a", "b">>, <<"A", " ", "b">>,
      <<"b", "A", "A">>>>

\* data.json with n points with prompts, laid out in rows of twelve.
SearchDataset(n) ==
    [bounds |-> DataBounds,
     points |-> [k \in 1..n |->
                    [id |-> k, x |-> ((k - 1) % 12) * 16 - 88,
                     y |-> ((k - 1) \div 12) * 14 - 60,
                     prompt |-> PromptList[(k % Len(PromptList)) + 1]]]]

\* A dataset with fewer matches than the result list shows, and one with
\* more.
SearchSizes == {3, maxResults + 2}

\* Texts of up to n characters typed into the input.
RECURSIVE Texts(_)
Texts(n) ==
    IF n = 0 THEN {<<>>}
    ELSE Texts(n - 1)
         \cup {Append(t, c) : t \in Texts(n - 1), c \in {"a", "B", " "}}

\* The 'input' listener: the clear button aside, it restarts the debounce
\* timer with the trimmed value.
InputEvent(value) ==
    /\ search' = [search EXCEPT !.input = value,
                                !.searchTimeout = <<trim(value)>>]
    /\ UNCHANGED <<loaderVars, treeVars, viewVars, app, hoverCalls, probe>>

\* The debounce timer fires 300 ms after the last input event:
\* performSearch(query) with the query captured by that event.  The
\* hand-off reaches the map once setupEventHandlers has installed
\* onSearchChange.
SearchTimerFires ==
    /\ search.searchTimeout # <<>>
    /\ LET text == search.searchTimeout[1]
       IN  /\ search' = [search EXCEPT
                            !.searchTimeout = <<>>,
                            !.searched = <<text>>,
                            !.results = IF text = <<>> THEN @
                                        ELSE SearchDisplayed(search, text)]
           /\ filteredIds' = IF app.handlers THEN SearchHandOff(search, text)
                             ELSE filteredIds
    /\ UNCHANGED <<loaderVars, treeVars, cameraVars, interactionVars, canvas,
                   frame, steps, app, hoverCalls, probe>>

\* clearSearch(), from the clear button or Escape: empties the input, hides
\* the list and hands null to the map.  The timer is not cleared.
clearSearch(sm) == [sm EXCEPT !.input = <<>>]

ClearSearchEvent ==
    /\ search' = clearSearch(search)
    /\ filteredIds' = IF app.handlers THEN <<>> ELSE filteredIds
    /\ UNCHANGED <<loaderVars, treeVars, cameraVars, interactionVars, canvas,
                   frame, steps, app, hoverCalls, probe>>

SearchNext ==
    \/ \E n \in SearchSizes : LoadData(SearchDataset(n))
    \/ \E value \in Texts(MaxQueryLen) : InputEvent(value)
    \/ SearchTimerFires
    \/ ClearSearchEvent

SearchSpec == MapStart /\ [][SearchNext]_vars

-----------------------------------------------------------------------------
(* SizeSpec: the displaySize computation of render() on its own *)

\* Widths of the dataset, scaledDataWidth = bounds.maxX - bounds.minX, from
\* a dataset whose points share one x upwards.
DataWidths == {W(2500 * k) : k \in 0..MaxWidthSteps}

\* Widths of the viewport, canvas.width / zoom, from a canvas of width 0
\* upwards.
ViewportWidths == {0} \cup {W(50 * 3 ^ k) : k \in 0..(MaxWidthSteps - 1)}

\* render() computes displaySize for one pair of widths.
ComputeDisplaySize(scaledDataWidth, viewportWidth) ==
    /\ probe' = <<[scaledDataWidth |-> scaledDataWidth,
                   viewportWidth |-> viewportWidth,
                   displaySize |->
                       displaySizeOf(scaledDataWidth, viewportWidth)]>>
    /\ UNCHANGED <<loaderVars, treeVars, viewVars, app, hoverCalls, search>>

SizeNext ==
    \E dw \in DataWidths, vw \in ViewportWidths : ComputeDisplaySize(dw, vw)

SizeSpec == MapStart /\ [][SizeNext]_vars

-----------------------------------------------------------------------------
(* Properties of the spatial index *)

SeqToSet(q) == {q[k] : k \in 1..Len(q)}

\* Every place a point is stored at: <<node, position in node.points>>.
Slots == {<<n, k>> : n \in DOMAIN quadTree, k \in 1..MaxPoints} 

StoredSlots == {sl \in Slots : sl[2] <= Len(quadTree[sl[1]].points)}

\* C4: the points a query returns are exactly the points of the dataset that
\* lie in the rectangle, both edges included.
C4_QueryComplete ==
    lastQuery # <<>> =>
        SeqToSet(lastQuery[1].found) =
            {pt \in SeqToSet(allPoints) : pointInRange(pt, lastQuery[1].range)}

\* A query on a subdivided tree returned some points and left others out.
C4_Witness ==
    /\ lastQuery # <<>>
    /\ quadTree[Root].divided
    /\ lastQuery[1].found # <<>>
    /\ Len(lastQuery[1].found) < Len(allPoints)
    /\ \E pt \in SeqToSet(lastQuery[1].found) :
           \A k \in 1..Len(quadTree[Root].points) : quadTree[Root].points[k] # pt

\* C5: the nodes together store as many points as were inserted, and every
\* inserted point is stored at exactly one place.
C5_Exclusive ==
    /\ Cardinality(StoredSlots) = Len(allPoints)
    /\ \A k \in 1..Len(allPoints) :
           Cardinality({sl \in StoredSlots :
                           quadTree[sl[1]].points[sl[2]] = allPoints[k]}) = 1

\* All points of a full dataset are in, spread over the root and children.
C5_Witness ==
    /\ Len(allPoints) = MaxPoints
    /\ quadTree[Root].divided
    /\ \E n \in DOMAIN quadTree : n # Root /\ quadTree[n].points # <<>>

\* C9 as stated: a subdivided node holds no points of its own.
C9_DividedHoldsNone ==
    \A n \in DOMAIN quadTree : quadTree[n].divided => quadTree[n].points = <<>>

\* C9 amended: a subdivided node keeps the points it stored before it was
\* subdivided, exactly capacity of them; it lies above maxDepth, and no
\* undivided node has children.
C9_DividedKeepsCapacity ==
    \A n \in DOMAIN quadTree :
        /\ quadTree[n].divided =>
              /\ Len(quadTree[n].points) = quadTree[n].capacity
              /\ quadTree[n].depth < quadTree[n].maxDepth
              /\ \A k \in 1..4 : Child(n, k) \in DOMAIN quadTree
        /\ ~quadTree[n].divided =>
              \A k \in 1..4 : Child(n, k) \notin DOMAIN quadTree

\* A subdivided node holds its points while a child holds further ones.
C9_Witness ==
    \E n \in DOMAIN quadTree :
        /\ quadTree[n].divided
        /\ quadTree[n].points # <<>>
        /\ \E k \in 1..4 : quadTree[Child(n, k)].points # <<>>

\* C22: a subdivided node lies above maxDepth and holds capacity points; a
\* node above maxDepth holds at most capacity points; no node lies below
\* maxDepth; a node at maxDepth is not subdivided and stores whatever it is
\* given.
C22_CapacityDiscipline ==
    \A n \in DOMAIN quadTree :
        LET node == quadTree[n] IN
        /\ node.depth = Len(n)
        /\ node.depth <= node.maxDepth
        /\ node.divided =>
              node.depth < node.maxDepth /\ Len(node.points) = node.capacity
        /\ node.depth < node.maxDepth => Len(node.points) <= node.capacity
        /\ node.depth = node.maxDepth => ~node.divided /\ StoresHere(node)

\* A node at maxDepth holds more than capacity points, below a subdivided
\* node that holds capacity points.
C22_Witness ==
    \E n \in DOMAIN quadTree :
        /\ quadTree[n].depth = quadTree[n].maxDepth
        /\ Len(quadTree[n].points) > quadTree[n].capacity
        /\ quadTree[Root].divided
        /\ Len(quadTree[Root].points) = quadTree[Root].capacity

\* Positions probing node n: its stored points, the points of the dataset,
\* and a 5 x 5 grid over its region, which has the corners, the edges and
\* the two lines where the quadrants meet.
GridPoints(n) ==
    LET b == quadTree[n].bounds
        qw == Half(Half(b.width))
        qh == Half(Half(b.height))
    IN  {[id |-> 0, x |-> b.x + i * qw, y |-> b.y + j * qh] :
            i \in 0..4, j \in 0..4}

PartitionProbes(n) ==
    GridPoints(n) \cup SeqToSet(allPoints) \cup SeqToSet(quadTree[n].points)

\* The children of node n whose contains test accepts the point.
AcceptingChildren(n, point) ==
    {k \in 1..4 : contains(quadTree[Child(n, k)], point)}

\* C23: every point a subdivided node's contains test accepts is accepted by
\* exactly one of its four children, points on the lines where the quadrants
\* meet included; and every stored point lies within the region of the node
\* that stores it.
C23_ExactlyOneChild ==
    \A n \in DOMAIN quadTree :
        /\ quadTree[n].divided =>
              \A point \in PartitionProbes(n) :
                  contains(quadTree[n], point) =>
                      Cardinality(AcceptingChildren(n, point)) = 1
        /\ \A k \in 1..Len(quadTree[n].points) :
               contains(quadTree[n], quadTree[n].points[k])

\* A child of the subdivided root stores a point that lies exactly on the
\* line where it meets its neighbour.
C23_Witness ==
    /\ quadTree[Root].divided
    /\ \E k \in 2..4 : \E pt \in SeqToSet(quadTree[Child(Root, k)].points) :
           /\ pt.x = quadTree[Child(Root, k)].bounds.x
           /\ pt.y = quadTree[Child(Root, k)].bounds.y

\* The rectangle has a negative width or height.
Malformed(range) == range.width < 0 \/ range.height < 0

\* The rectangle has no area: a width or height of zero or less.
Degenerate(range) == range.width <= 0 \/ range.height <= 0

\* C13 as stated: every query rectangle that is empty (zero width or zero
\* height) or malformed (negative width or height) yields an empty result.
C13_DegenerateYieldsEmpty ==
    lastQuery # <<>> /\ Degenerate(lastQuery[1].range) =>
        lastQuery[1].found = <<>>

\* C13, amended: a rectangle of negative width or height yields an empty
\* result; a rectangle of zero width or height yields exactly the stored
\* points that lie on it, its edges being inclusive, and so an empty result
\* when no point lies on it.
C13_MalformedYieldsEmpty ==
    lastQuery # <<>> =>
        LET range == lastQuery[1].range
            found == lastQuery[1].found
        IN  /\ Malformed(range) => found = <<>>
            /\ Degenerate(range) =>
                 SeqToSet(found) =
                    {p \in SeqToSet(allPoints) : pointInRange(p, range)}

\* A rectangle of zero width returned the points that lie on it.
C13_Witness ==
    /\ lastQuery # <<>>
    /\ lastQuery[1].range.width = 0
    /\ lastQuery[1].range.height > 0
    /\ Len(lastQuery[1].found) >= 2

\* The four quadrants subdivide() would give the root.
RootQuadrants == subdivide((Root :> quadTree[Root]), Root)

\* The index has capacity 4 and room to descend, and five points have been
\* inserted that all lie inside one quadrant of the region.
C19_Scenario ==
    /\ quadTree[Root].capacity = 4
    /\ quadTree[Root].maxDepth >= 1
    /\ Len(allPoints) = 5
    /\ \E k \in 1..4 : \A i \in 1..5 :
           contains(RootQuadrants[Child(Root, k)], allPoints[i])

\* The tree has been subdivided exactly once: the root and its four
\* children are all the nodes.
SubdividedOnce ==
    /\ quadTree[Root].divided
    /\ DOMAIN quadTree = {Root} \cup {Child(Root, k) : k \in 1..4}

\* A query for the full region returns all five points.
FullQueryReturnsAll ==
    LET found == query(quadTree, Root, quadTree[Root].bounds, <<>>)
    IN  Len(found) = 5 /\ SeqToSet(found) = SeqToSet(allPoints)

\* C19 as stated: the tree is subdivided exactly once, the five points are
\* stored in the child quadrants, and a query for the full region returns
\* all five.
C19_PointsInChildren ==
    C19_Scenario =>
        /\ SubdividedOnce
        /\ \A i \in 1..5 : \E k \in 1..4 :
               allPoints[i] \in SeqToSet(quadTree[Child(Root, k)].points)
        /\ FullQueryReturnsAll

\* C19 amended: the tree is subdivided exactly once, the first four points
\* stay in the root, the fifth alone is stored in the child quadrant that
\* contains it, and a query for the full region returns all five.
C19_FifthInChild ==
    C19_Scenario =>
        /\ SubdividedOnce
        /\ quadTree[Root].points = SubSeq(allPoints, 1, 4)
        /\ \E k \in 1..4 :
               /\ contains(quadTree[Child(Root, k)], allPoints[5])
               /\ quadTree[Child(Root, k)].points = <<allPoints[5]>>
               /\ \A j \in (1..4) \ {k} :
                      quadTree[Child(Root, j)].points = <<>>
        /\ FullQueryReturnsAll

\* Five points of one quadrant are in an index of capacity 4, and the full
\* region has been queried.
C19_Witness ==
    /\ C19_Scenario
    /\ quadTree[Root].divided
    /\ lastQuery # <<>>
    /\ lastQuery[1].range = quadTree[Root].bounds
    /\ Len(lastQuery[1].found) = 5

-----------------------------------------------------------------------------
(* Properties of the viewer *)

\* The ids of a sequence of points or of drawn entries.
IdsOf(q) == {q[k].id : k \in 1..Len(q)}

\* C6: with a filter set active the spatial query is not filtered: in every
\* frame the points drawn, and the count reported as visible, are those of
\* the unfiltered index result for the frame's viewport; points outside the
\* filter set are drawn, de-emphasized, rather than removed.
C6_FrameDrawsUnfilteredQuery ==
    frame # <<>> =>
        LET result == query(quadTree, Root, frame[1].viewport, <<>>)
        IN  /\ IdsOf(frame[1].drawn) = IdsOf(result)
            /\ frame[1].visibleCount = Len(result)

\* C7: zoom is clamped at every mutation site: after any sequence of wheel
\* events, zoomIn, zoomOut, panTo, resetView and ticks, both
\* targetCamera.zoom and camera.zoom lie within [0.05, 20].
C7_ZoomWithinLimits ==
    /\ ZoomMin <= targetCamera.zoom /\ targetCamera.zoom <= ZoomMax
    /\ ZoomMin <= camera.zoom /\ camera.zoom <= ZoomMax

\* A step of a pointer handler: mouse, wheel or touch.
PointerStep ==
    \/ \E pos \in ScreenPositions : MouseDown(pos)
    \/ \E pos \in ScreenPositions : MouseMove(pos)
    \/ MouseUp
    \/ \E pos \in ScreenPositions, up \in BOOLEAN : Wheel(pos, up)
    \/ \E touches \in 1..2, pos \in ScreenPositions : TouchStart(touches, pos)
    \/ \E touches \in 1..2, pos \in ScreenPositions : TouchMove(touches, pos)
    \/ TouchEnd

\* A step of a camera command other than resetView.
TargetCommandStep ==
    \/ ZoomIn
    \/ ZoomOut
    \/ \E pointId \in 1..MaxPoints : ResultClick(pointId)

Failed(id) == id \in DOMAIN imageCache /\ imageCache[id].status = "failed"

\* C11: a thumbnail load failure is local and permanent: the error handler
\* decrements the in-flight count and starts the next queued request and
\* touches no other entry; a failed entry stays failed and is never fetched
\* again; a frame in a thumbnail mode draws the placeholder for every id
\* that is not loaded, a failed one included, and the image for every
\* loaded id.
C11_FailureLocalAndPermanent ==
    /\ [](\A id \in Ids : Failed(id) => fetches[id] = 1)
    /\ [][\A id \in Ids :
            /\ Failed(id) => (Failed(id)' /\ fetches'[id] = fetches[id])
            /\ ImgOnerrorEvent(id) =>
                 /\ Failed(id)'
                 /\ IF imageLoadQueue = <<>>
                    THEN currentLoads' = currentLoads - 1
                    ELSE /\ currentLoads' = currentLoads
                         /\ imageLoadQueue' = Tail(imageLoadQueue)
                         /\ imageCache'[Head(imageLoadQueue)].status = "loading"
                         /\ fetches'[Head(imageLoadQueue)] = 1
                 /\ \A other \in DOMAIN imageCache \ {id} :
                      \/ imageCache'[other] = imageCache[other]
                      \/ /\ imageLoadQueue # <<>>
                         /\ other = Head(imageLoadQueue)]_vars
    /\ [][Tick /\ frame' # <<>> =>
            \A k \in 1..Len(frame'[1].drawn) :
               LET d == frame'[1].drawn[k]
               IN  d.kind = IF frame'[1].renderMode = "dot" THEN "dot"
                            ELSE IF imageCache'[d.id].status = "loaded"
                            THEN "image" ELSE "placeholder"]_vars

\* A frame shows the placeholder for a failed id beside the image of a
\* loaded one, after more requests than may run at once were all started.
C11_Witness ==
    /\ frame # <<>>
    /\ \E k \in 1..Len(frame[1].drawn) :
          Failed(frame[1].drawn[k].id) /\ frame[1].drawn[k].kind = "placeholder"
    /\ \E k \in 1..Len(frame[1].drawn) : frame[1].drawn[k].kind = "image"
    /\ Cardinality(DOMAIN imageCache) > maxConcurrentLoads
    /\ imageLoadQueue = <<>>

\* C12: a failed load of data.json is terminal: when the fetch rejects,
\* answers not ok or does not parse, the app enters the error state, with
\* showError called exactly once; in that state the loading overlay is never
\* hidden, the map and search handlers are never installed, the fetch is
\* never issued again, and the app never leaves it.
C12_LoadFailureTerminal ==
    /\ [](app.errors <= 1)
    /\ [](app.phase = "error" =>
            /\ app.errors = 1
            /\ app.fetches = 1
            /\ ~app.overlayHidden
            /\ ~app.handlers
            /\ ~HandlersInstalled)
    /\ [][(\E cause \in FailureCauses : LoadFails(cause)) =>
             app'.phase = "error" /\ app'.errors = 1]_vars
    /\ [][app.phase = "error" => app' = app]_vars

\* The app is in the error state and frames go on being rendered.
C12_Witness ==
    /\ app.phase = "error"
    /\ steps = MaxSteps
    /\ isDragging

\* The tolerance of the camera properties: a quarter of a world unit.
Epsilon == WS \div 4

\* C14: zoom-at-cursor invariance: for every cursor position and either
\* wheel direction, the world coordinate under the cursor computed with the
\* target transform before the wheel event equals, within Epsilon, the one
\* computed with the target transform after it.
C14_ZoomAtCursorInvariant ==
    [][\A pos \in ScreenPositions, up \in BOOLEAN :
          Wheel(pos, up) =>
             LET before == screenToWorld(targetCamera, pos.x, pos.y)
                 after == screenToWorld(targetCamera', pos.x, pos.y)
             IN  /\ Abs(after.x - before.x) <= Epsilon
                 /\ Abs(after.y - before.y) <= Epsilon]_vars

\* The drag of MomentumSpec has been released.
Released == steps = 4 /\ ~isDragging

\* update() leaves the velocity at or below the momentum threshold.
MomentumSpent ==
    /\ Abs(update.velocity.x) * 10 <= FS
    /\ Abs(update.velocity.y) * 10 <= FS

\* The momentum is spent and the next update() leaves the target in place.
TargetStopped == MomentumSpent /\ update.targetCamera = targetCamera

\* The largest total momentum displacement of the scenario in world units,
\* the sum of 25 * 0.92^n over n >= 1, rounded up.
MomentumReach == W(288)

\* C15: momentum terminates: after the drag by (50, 0) at zoom 2 is
\* released and no further input occurs, each tick moves target x down by
\* velocity / zoom, an amount strictly smaller than that of the tick (or of
\* the drag) before; after finitely many ticks the target stops changing
\* for good; the total displacement after the drag stays bounded.
C15_MomentumTerminates ==
    /\ [][Coast /\ Released =>
            IF Abs(velocity'.x) * 10 > FS
            THEN /\ targetCamera.x - targetCamera'.x =
                        TDiv(velocity'.x * WS, camera'.zoom)
                 /\ targetCamera'.x <= targetCamera.x
                 /\ velocity'.x > 0
                 /\ velocity'.x * camera.zoom < velocity.x * camera'.zoom
            ELSE targetCamera' = targetCamera]_vars
    /\ Released ~> []TargetStopped
    /\ [](Released =>
            /\ targetCamera.x <= allPoints[1].x - W(25)
            /\ targetCamera.x >= allPoints[1].x - W(25) - MomentumReach)

\* The momentum has run out after moving the target beyond the drag.
C15_Witness ==
    /\ Released
    /\ MomentumSpent
    /\ velocity.x > 0
    /\ targetCamera.x < allPoints[1].x - W(25) - W(250)
    /\ camera.zoom >= 2 * FS - FS \div 100

\* C16: the hover-change and the visible-count-change notification are each
\* delivered at most once per tick and only when the value differs from the
\* one last delivered: a tick whose visible count equals that of the frame
\* before delivers no visible-count notification.
C16_NotifiedOncePerTickOnChange ==
    /\ [](hoverCalls <= 1)
    /\ [](frame # <<>> => Len(frame[1].countNotified) <= 1)
    /\ [][Tick /\ frame # <<>> /\ frame' # <<>>
             /\ frame'[1].visibleCount = frame[1].visibleCount
          => frame'[1].countNotified = <<>>]_vars

\* Screen coordinates the camera is probed at: the corners of the canvas,
\* its centre, and two points off the axes of the centre.
ProbePositions ==
    {[x |-> 0, y |-> 0],
     [x |-> canvas.width, y |-> canvas.height],
     [x |-> canvas.width \div 2, y |-> canvas.height \div 2],
     [x |-> canvas.width \div 4, y |-> canvas.height \div 4],
     [x |-> canvas.width - 1, y |-> 1]}

\* A distance on screen (1/FS pixels) that one step of the world resolution,
\* 1/WS, covers at the zoom of cam, with one step of the pixel resolution.
ScreenTolerance(cam, d) == Abs(d) * WS <= cam.zoom + WS

C18_DisplaySizeClamped ==
    probe # <<>> =>
        /\ probe[1].displaySize.kind = "finite"
        /\ probe[1].displaySize.v >= 2 * FS
        /\ probe[1].displaySize.v <= 256 * FS

\* The tiers the README documents, by zoom (1/FS): a zoom on a threshold
\* may fall in either of the two tiers it separates.
ZoomModes(zoom) ==
    {m \in {"dot"} : zoom * 10 <= FS}
    \cup {m \in {"small"} : FS <= zoom * 10 /\ zoom * 10 <= 4 * FS}
    \cup {m \in {"medium"} : 4 * FS <= zoom * 10 /\ zoom * 10 <= 12 * FS}
    \cup {m \in {"large"} : 12 * FS <= zoom * 10}

ZoomSize(zoom) ==
    (25 * ((bounds[1].maxX - bounds[1].minX) \div WS) * zoom)
        \div (10 * canvas.width)

\* Half a pixel, for the rounding of the viewport width.
SizeTolerance == FS \div 2

\* The tiers of the code, by unclamped display size (1/FS pixels).
SizeModes(size) ==
    {m \in {"dot"} : size <= 8 * FS + SizeTolerance}
    \cup {m \in {"small"} : 8 * FS - SizeTolerance <= size
                              /\ size <= 32 * FS + SizeTolerance}
    \cup {m \in {"medium"} : 32 * FS - SizeTolerance <= size
                               /\ size <= 128 * FS + SizeTolerance}
    \cup {m \in {"large"} : 128 * FS - SizeTolerance <= size}

VisibleIds(cam) ==
    {pt.id : pt \in
        {q \in SeqToSet(allPoints) :
            /\ pointInRange(q, getViewportBounds(cam))
            /\ filteredIds # <<>> => q.id \in filteredIds[1]}}

\* A step in which loadImage is called: a new Image is created, or a frame
\* is drawn that asks for images.
LoadImageCalled ==
    \/ created' # created
    \/ frame' # <<>> /\ frame' # frame /\ frame'[1].requested # <<>>

\* C21: loadImage is called only while a frame is drawn in a thumbnail mode,
\* with data loaded, and only for ids of points visible in that frame; every
\* new Image is one the frame asked for; no Image exists before the dataset
\* is loaded.
C21_LoadOnlyVisible ==
    /\ [](quadTree = <<>> => DOMAIN imageCache = {})
    /\ [][LoadImageCalled =>
            /\ quadTree # <<>>
            /\ frame' # <<>>
            /\ frame'[1].renderMode # "dot"
            /\ SeqToSet(frame'[1].requested) \subseteq VisibleIds(camera')
            /\ \A id \in Ids :
                   created'[id] # created[id] =>
                       id \in SeqToSet(frame'[1].requested)]_vars

\* A frame in a thumbnail mode has created Images for some points while
\* another point of the dataset, out of view, has none.
C21_Witness ==
    /\ frame # <<>>
    /\ frame[1].renderMode # "dot"
    /\ frame[1].requested # <<>>
    /\ DOMAIN imageCache # {}
    /\ \E pt \in SeqToSet(allPoints) : pt.id \notin DOMAIN imageCache

\* C25: an animation frame during a drag moves the current camera toward
\* the target and leaves the target and the velocity as they are; a frame
\* that changes the velocity or the target happens with no drag active.
C25_NoMomentumWhileDragging ==
    [][AnimationFrame =>
          /\ camera' = [x |-> Lerp(camera.x, targetCamera.x),
                        y |-> Lerp(camera.y, targetCamera.y),
                        zoom |-> Lerp(camera.zoom, targetCamera.zoom)]
          /\ isDragging => targetCamera' = targetCamera /\ velocity' = velocity
          /\ (targetCamera' # targetCamera \/ velocity' # velocity) =>
                ~isDragging]_vars

\* A drag is active with a velocity that momentum would use, and a frame
\* has moved the current camera part of the way to the dragged target.
C25_Witness ==
    /\ isDragging
    /\ Abs(velocity.x) * 10 > FS
    /\ bounds # <<>>
    /\ camera.zoom = resetView(bounds[1]).zoom
    /\ camera.x # resetView(bounds[1]).x
    /\ camera.x # targetCamera.x

\* C26: in every frame the hovered point is the result of the pick over the
\* frame's own visible set; in particular, once a frame has been drawn,
\* hoveredPoint is null or one of the points visible in that frame.
C26_HoveredInFrame ==
    [][AnimationFrame =>
          \/ hoveredPoint' = <<>>
          \/ /\ frame' # <<>>
             /\ hoveredPoint'[1] \in IdsOf(frame'[1].drawn)]_vars

-----------------------------------------------------------------------------
(* Properties of the image load scheduler *)

InFlight == {id \in DOMAIN imageCache : imageCache[id].status = "loading"}

InQueue(id) == \E k \in 1..Len(imageLoadQueue) : imageLoadQueue[k] = id

\* pending / loaded / failed, as the renderer sees an entry.
Status(img) ==
    IF img.status \in {"queued", "loading"} THEN "pending" ELSE img.status

\* C1: the number of simultaneously in-flight loads, and the counter
\* currentLoads, never exceed maxConcurrentLoads.
C1_ConcurrencyBound ==
    /\ currentLoads <= maxConcurrentLoads
    /\ Cardinality(InFlight) <= maxConcurrentLoads

\* The ceiling is reached while a further request waits in the queue.
C1_Witness ==
    /\ Cardinality(InFlight) = maxConcurrentLoads
    /\ Len(imageLoadQueue) > 0

\* C2: every id is fetched at most once and gets at most one Image object,
\* however often loadImage(id) is called; a call for a cached id returns the
\* entry that is already in the cache.
C2_AtMostOneFetch ==
    /\ \A id \in Ids : fetches[id] <= 1 /\ created[id] <= 1
    /\ lastCall.cached => /\ lastCall.id \in DOMAIN imageCache
                          /\ created[lastCall.id] = 1

\* loadImage was called again for an id whose load had already failed, and
\* that id has still been fetched once.
C2_Witness ==
    /\ lastCall.cached
    /\ imageCache[lastCall.id].status = "failed"
    /\ fetches[lastCall.id] = 1

\* C3: with every started fetch completing or failing, each queued request
\* is eventually started, and a request that has left the queue has been
\* started exactly once.
C3_QueuedEventuallyStarted ==
    /\ \A id \in QueueIds :
           InQueue(id) ~> (~InQueue(id) /\ fetches[id] = 1)
    /\ [](\A id \in DOMAIN imageCache : ~InQueue(id) => fetches[id] = 1)

\* A request is waiting in the queue behind a full set of in-flight loads.
C3_Witness ==
    /\ Len(imageLoadQueue) > 0
    /\ fetches[Head(imageLoadQueue)] = 0
    /\ currentLoads = maxConcurrentLoads

\* C24: requests are started in the order of their first loadImage calls.
\* In FairLoaderSpec the first calls come in increasing id order: whenever
\* the fetch of a request has been started, so has the fetch of every
\* request first made before it, and the queue holds the waiting requests
\* in the order they were made.
C24_StartedInRequestOrder ==
    /\ \A a, b \in DOMAIN imageCache :
           a < b /\ fetches[b] > 0 => fetches[a] > 0
    /\ \A j, k \in 1..Len(imageLoadQueue) :
           j < k => imageLoadQueue[j] < imageLoadQueue[k]

\* Two requests have waited in the queue; the earlier has been started on a
\* completion while the later still waits.
C24_Witness ==
    /\ Len(imageLoadQueue) = 1
    /\ \E a \in DOMAIN imageCache :
           /\ a < Head(imageLoadQueue)
           /\ a > maxConcurrentLoads
           /\ fetches[a] = 1

\* C10: an entry, once created, stays in the cache and is never replaced,
\* and its status only moves from pending to loaded or to failed.
C10_CacheMonotonic ==
    [][\A id \in DOMAIN imageCache :
          /\ id \in DOMAIN imageCache'
          /\ created'[id] = created[id]
          /\ \/ Status(imageCache'[id]) = Status(imageCache[id])
             \/ /\ Status(imageCache[id]) = "pending"
                /\ Status(imageCache'[id]) \in {"loaded", "failed"}]_vars

\* The cache holds a loaded, a failed and a pending entry at once.
C10_Witness ==
    /\ \E id \in DOMAIN imageCache : imageCache[id].status = "loaded"
    /\ \E id \in DOMAIN imageCache : imageCache[id].status = "failed"
    /\ \E id \in DOMAIN imageCache : Status(imageCache[id]) = "pending"

-----------------------------------------------------------------------------
(* The filter the search box hands to the map *)

\* The label of a point contains the text when case is disregarded: at some
\* offset every character of the text agrees with the label's up to case.
ContainsIgnoringCase(label, text) ==
    \E off \in 0..(Len(label) - Len(text)) :
        \A j \in 1..Len(text) : Lower(label[off + j]) = Lower(text[j])

\* The ids of every point of the search data whose label contains the text.
AllMatchingIds(text) ==
    {search.allPoints[k].id :
        k \in {j \in 1..Len(search.allPoints) :
                  ContainsIgnoringCase(search.allPoints[j].prompt, text)}}

\* C27: when a query change is processed with the host handlers installed,
\* the map's filter becomes null for an empty query and otherwise the set of
\* ids of every point whose label contains the query case-insensitively,
\* however many of them the result list displays; the list never displays
\* more than maxResults.
C27_FilterHoldsAllMatches ==
    [][SearchTimerFires /\ app.handlers =>
          /\ filteredIds' = IF search.searchTimeout[1] = <<>> THEN <<>>
                            ELSE <<AllMatchingIds(search.searchTimeout[1])>>
          /\ Len(search'.results) <= maxResults]_vars

\* A query with more than maxResults matches has been processed: the list
\* displays maxResults of them and the filter holds more.
C27_Witness ==
    /\ search.searched # <<>>
    /\ search.searched[1] # <<>>
    /\ Len(search.results) = maxResults
    /\ filteredIds # <<>>
    /\ Cardinality(filteredIds[1]) > maxResults
    /\ filteredIds[1] = AllMatchingIds(search.searched[1])

-----------------------------------------------------------------------------
(* ResetSpec: the view is reset after some interaction, then left alone *)

\* The scenario: the data loads; MaxSteps - 1 pointer events, zoomIn
\* commands and animation frames follow in any order; then the view is
\* reset, and only animation frames follow.
ResetNext ==
    \/ \E data \in Datasets : LoadData(data)
    \/ steps < MaxSteps - 1 /\ Tick
    \/ steps < MaxSteps - 1 /\ \E pos \in ScreenPositions : MouseDown(pos)
    \/ steps < MaxSteps - 1 /\ \E pos \in ScreenPositions : MouseMove(pos)
    \/ steps < MaxSteps - 1 /\ MouseUp
    \/ steps < MaxSteps - 1 /\ ZoomIn
    \/ steps = MaxSteps - 1 /\ ResetView
    \/ steps = MaxSteps /\ Coast

ResetSpec == MapStart /\ [][ResetNext]_vars

\* Both transforms are the fitted initial view.
Fitted ==
    /\ bounds # <<>>
    /\ camera = resetView(bounds[1])
    /\ targetCamera = resetView(bounds[1])

\* C28: once the view has been reset and only animation frames follow, the
\* current and the target transform are the fitted initial view, whatever
\* the pointer and the camera were doing before the reset.
C28_ResetViewStays == steps = MaxSteps => Fitted

-----------------------------------------------------------------------------
(* The accounting of the image load scheduler *)

\* The places an entry of the cache can be in: waiting in imageLoadQueue;
\* fetch started and not settled; settled by onload or onerror.
Places(id) ==
    (IF InQueue(id) THEN {"queued"} ELSE {})
    \cup (IF fetches[id] > 0 /\ imageCache[id].status \notin {"loaded", "failed"}
          THEN {"in flight"} ELSE {})
    \cup (IF imageCache[id].status \in {"loaded", "failed"}
          THEN {"finished"} ELSE {})

\* C29: between handler runs, currentLoads is the number of entries whose
\* fetch has been started and has neither completed nor failed, and is
\* never negative; every cached entry is in exactly one of the places
\* queued, in flight and finished; and while requests wait in the queue
\* currentLoads is maxConcurrentLoads.
C29_SchedulerAccounting ==
    /\ currentLoads >= 0
    /\ currentLoads =
           Cardinality({id \in DOMAIN imageCache : "in flight" \in Places(id)})
    /\ \A id \in DOMAIN imageCache : Cardinality(Places(id)) = 1
    /\ \A k \in 1..Len(imageLoadQueue) : imageLoadQueue[k] \in DOMAIN imageCache
    /\ Len(imageLoadQueue) > 0 => currentLoads = maxConcurrentLoads

\* loadImage was called again for an id that waits in the queue behind
\* maxConcurrentLoads loads in flight, and left it waiting.
C29_Witness ==
    /\ lastCall.cached
    /\ InQueue(lastCall.id)
    /\ currentLoads = maxConcurrentLoads

-----------------------------------------------------------------------------
(* clearSearch and the pending debounce timer *)

\* The search box has been cleared and nothing typed since: the input is
\* empty and the map has no filter.  An input event that empties the box
\* restarts the timer with the empty query, so a timer that is pending
\* with a query of its own in such a state was started before clearSearch.
SearchCleared ==
    /\ app.handlers
    /\ search.input = <<>>
    /\ filteredIds = <<>>

\* C30: once clearSearch has cleared the filter and nothing is typed, the
\* filter stays cleared: no performSearch scheduled by an earlier input
\* event runs afterwards and applies a filter again.
C30_ClearedStaysCleared ==
    [][(SearchCleared /\ SearchTimerFires) => filteredIds' = <<>>]_vars

=============================================================================
